---- MODULE Spec2Model ----
(***************************************************************************)
(* Model of ansiblelint/rules/filter_surrounded_by_spaces.py:              *)
(*   string_violates_rule, container_violates_rule and                     *)
(*   FilterSurroundedBySpacesRule.matchtask.                               *)
(*                                                                         *)
(* A text is a sequence of one-character strings.  Python indexes from 0   *)
(* and TLA+ from 1: the character Python calls text[i] is text[i + 1]      *)
(* here.  The outcome of a call is one of the strings "True", "False"      *)
(* (the returned boolean) and "IndexError" (the call raised).              *)
(***************************************************************************)
EXTENDS Integers, Sequences, FiniteSets

VARIABLES
    text,      \* SpecString: the argument of string_violates_rule
    ret,       \* SpecString: outcome of the call, "none" before it
    input,     \* SpecWalk: the argument of container_violates_rule
    stack,     \* SpecWalk: the active calls, innermost last
    retval,    \* SpecWalk: outcome travelling from a finished call to its caller
    visited,   \* SpecWalk: paths of the values examined so far, in order
    outcome,   \* SpecWalk: outcome of the outermost call, "none" before it ends
    tasks,     \* SpecRun: the task records of the linted playbook
    pos,       \* SpecRun: number of tasks already handed to matchtask
    matches,   \* SpecRun: positions of the tasks reported so far
    pc         \* SpecRun: "running", "done" or "error"

vars == <<text, ret, input, stack, retval, visited, outcome, tasks, pos, matches, pc>>

(***************************************************************************)
(* Bounds and alphabets                                                    *)
(***************************************************************************)
MaxLen == 4

Whitespace == {" ", "\t"}

Char == {"a", "b", "|"} \cup Whitespace

RECURSIVE TextsOfLen(_)
TextsOfLen(n) ==
    IF n = 0 THEN {<<>>}
    ELSE {Append(t, c) : t \in TextsOfLen(n - 1), c \in Char}

Texts == UNION {TextsOfLen(n) : n \in 0..MaxLen}

(***************************************************************************)
(* string_violates_rule                                                    *)
(***************************************************************************)
\* str.isspace() of a one-character string
isspace(c) == c \in Whitespace

\* text[i] for a Python index i: negative indices count from the end, and
\* an index outside -len .. len-1 raises IndexError
Subscript(t, i) ==
    IF 0 <= i /\ i < Len(t) THEN t[i + 1]
    ELSE IF i < 0 /\ -i <= Len(t) THEN t[Len(t) + i + 1]
    ELSE "IndexError"

\* `not text[i].isspace()`: "True", "False", or "IndexError" when the
\* subscript raises
NotSpaceAt(t, i) ==
    LET c == Subscript(t, i) IN
    IF c = "IndexError" THEN "IndexError"
    ELSE IF isspace(c) THEN "False" ELSE "True"

\* `if len(text) < 2: return False` (mutant: the bound off by one)
TooShortOffByOne(t) == Len(t) < 1

TooShort(t) == Len(t) < 2

\* the condition of the last elif, with both negations lost (mutant)
InteriorCondNoNot(t, idx) ==
    LET before == NotSpaceAt(t, idx - 1) IN
    IF before = "IndexError" THEN "IndexError"
    ELSE IF before = "False" THEN "True"
    ELSE LET after == NotSpaceAt(t, idx + 1) IN
         IF after = "IndexError" THEN "IndexError"
         ELSE IF after = "False" THEN "True" ELSE "False"

\* the condition of the last elif, with `and` for `or` (mutant)
InteriorCondAnd(t, idx) ==
    LET before == NotSpaceAt(t, idx - 1) IN
    IF before # "True" THEN before
    ELSE NotSpaceAt(t, idx + 1)

\* `not text[idx - 1].isspace() or not text[idx + 1].isspace()`, evaluated
\* left to right: the right operand is read only when the left one is False
InteriorCond(t, idx) ==
    LET before == NotSpaceAt(t, idx - 1) IN
    IF before # "False" THEN before
    ELSE NotSpaceAt(t, idx + 1)

\* `idx == 0 and not text[idx + 1].isspace()`
FirstCond(t, idx) ==
    IF idx = 0 THEN NotSpaceAt(t, idx + 1) ELSE "False"

\* `idx == len(text) - 1 and not text[idx - 1].isspace()`
LastCond(t, idx) ==
    IF idx = Len(t) - 1 THEN NotSpaceAt(t, idx - 1) ELSE "False"

\* One pass of the loop body for the Python index idx: "True" (return
\* True), "IndexError" (a subscript raised) or "continue" (next idx).
\* The if / elif / elif chain falls through to the next condition whenever
\* a condition is False.
LoopBody(t, idx) ==
    IF t[idx + 1] # "|" THEN "continue"
    ELSE IF FirstCond(t, idx) # "False" THEN FirstCond(t, idx)
    ELSE IF LastCond(t, idx) # "False" THEN LastCond(t, idx)
    ELSE IF InteriorCond(t, idx) # "False" THEN InteriorCond(t, idx)
    ELSE "continue"

\* `for idx, chr in enumerate(text)` from idx on, then `return False`
RECURSIVE ScanFrom(_, _)
ScanFrom(t, idx) ==
    IF idx >= Len(t) THEN "False"
    ELSE LET r == LoopBody(t, idx) IN
         IF r = "continue" THEN ScanFrom(t, idx + 1) ELSE r

string_violates_rule(t) ==
    IF TooShort(t) THEN "False" ELSE ScanFrom(t, 0)

(***************************************************************************)
(* Scanned values: str, list, dict, and anything else                      *)
(***************************************************************************)
TextV(t) == [kind |-> "str", text |-> t, keys |-> <<>>, elems |-> <<>>]

ListV(es) == [kind |-> "list", text |-> <<>>, keys |-> <<>>, elems |-> es]

\* a dict in its iteration order: keys[i] maps to elems[i]
DictV(ks, vs) == [kind |-> "dict", text |-> <<>>, keys |-> ks, elems |-> vs]

\* a number, a boolean or None
OtherV == [kind |-> "other", text |-> <<>>, keys |-> <<>>, elems |-> <<>>]

\* `container.items()`: the (key, value) pairs in iteration order
Items(v) == [i \in 1..Len(v.keys) |-> <<v.keys[i], v.elems[i]>>]

\* what the generator expression iterates over: `elem` of a list, `value`
\* of each `_, value` pair of a dict
Elements(v) ==
    IF v.kind = "list" THEN v.elems
    ELSE IF v.kind = "dict" THEN [i \in 1..Len(Items(v)) |-> Items(v)[i][2]]
    ELSE <<>>

(***************************************************************************)
(* container_violates_rule and matchtask as functions of their argument    *)
(***************************************************************************)
RECURSIVE container_violates_rule(_), AnyFrom(_, _)

\* `any(True for elem in ... if container_violates_rule(elem))` from the
\* i-th element on: a falsy element is filtered out, the first truthy one
\* ends any() with True, and an exception leaves the generator and any()
AnyFrom(es, i) ==
    IF i > Len(es) THEN "False"
    ELSE LET r == container_violates_rule(es[i]) IN
         IF r = "False" THEN AnyFrom(es, i + 1) ELSE r

container_violates_rule(v) ==
    IF v.kind = "str" THEN string_violates_rule(v.text)
    ELSE IF v.kind = "list" THEN AnyFrom(Elements(v), 1)
    ELSE IF v.kind = "dict" THEN AnyFrom(Elements(v), 1)
    ELSE "False"

matchtask(task) == container_violates_rule(task)

(***************************************************************************)
(* SpecString: one call of string_violates_rule on any text up to MaxLen   *)
(***************************************************************************)
IdleWalk ==
    /\ input = OtherV
    /\ stack = <<>>
    /\ retval = "none"
    /\ visited = <<>>
    /\ outcome = "none"

IdleRun ==
    /\ tasks = <<>>
    /\ pos = 0
    /\ matches = {}
    /\ pc = "done"

IdleString ==
    /\ text = <<>>
    /\ ret = "none"

InitString ==
    /\ text \in Texts
    /\ ret = "none"
    /\ IdleWalk
    /\ IdleRun

CallString ==
    /\ ret = "none"
    /\ ret' = string_violates_rule(text)
    /\ UNCHANGED <<text, input, stack, retval, visited, outcome, tasks, pos, matches, pc>>

NextString == CallString

SpecString == InitString /\ [][NextString]_vars

(***************************************************************************)
(* Properties of string_violates_rule (checked under SpecString)           *)
(***************************************************************************)
\* positions (from 1) of the pipes of a text
PipePositions(t) == {i \in 1..Len(t) : t[i] = "|"}

IsInterior(t, i) == 1 < i /\ i < Len(t)

\* the pipe at position i has a neighbour that is not whitespace
BadNeighbour(t, i) == ~isspace(t[i - 1]) \/ ~isspace(t[i + 1])

Returned == ret # "none"

\* C1: in a text of length >= 2, an interior pipe makes the loop return
\* True exactly when the character before it or the one after it is not
\* whitespace; and a text whose pipes are all interior yields True iff one
\* of its pipes has such a neighbour, False otherwise.
C1_InteriorPipe ==
    (Returned /\ Len(text) >= 2) =>
        /\ \A i \in PipePositions(text) :
               IsInterior(text, i) =>
                   LoopBody(text, i - 1) =
                       IF BadNeighbour(text, i) THEN "True" ELSE "continue"
        /\ (\A i \in PipePositions(text) : IsInterior(text, i)) =>
               ret = IF \E i \in PipePositions(text) : BadNeighbour(text, i)
                     THEN "True" ELSE "False"

\* an interior pipe with whitespace on exactly one side, reported
C1_Witness ==
    /\ ret = "True"
    /\ PipePositions(text) # {}
    /\ \A i \in PipePositions(text) :
           /\ IsInterior(text, i)
           /\ isspace(text[i - 1]) # isspace(text[i + 1])

\* all pipes interior and surrounded by whitespace, not reported
C1_WitnessClean ==
    /\ ret = "False"
    /\ PipePositions(text) # {}
    /\ \A i \in PipePositions(text) :
           IsInterior(text, i) /\ ~BadNeighbour(text, i)

\* C2: in a text of length >= 2 a pipe at the first position is a violation
\* iff the second character is not whitespace, and a text whose only pipe
\* is the first character, followed by whitespace, yields False.
C2_FirstPipe ==
    (Returned /\ Len(text) >= 2 /\ text[1] = "|") =>
        /\ LoopBody(text, 0) = "True" <=> ~isspace(text[2])
        /\ (PipePositions(text) = {1} /\ isspace(text[2])) => ret = "False"

\* C3: in a text of length >= 2 a pipe at the last position is a violation
\* iff the character before it is not whitespace, and a text whose only
\* pipe is the last character, preceded by whitespace, yields False.
C3_LastPipe ==
    (Returned /\ Len(text) >= 2 /\ text[Len(text)] = "|") =>
        /\ LoopBody(text, Len(text) - 1) = "True" <=> ~isspace(text[Len(text) - 1])
        /\ (PipePositions(text) = {Len(text)} /\ isspace(text[Len(text) - 1])) =>
               ret = "False"

\* C4: every call ends by returning a boolean, never in an error outcome.
C4_Total ==
    /\ ret \in {"none", "True", "False"}
    /\ outcome \in {"none", "True", "False"}
    /\ pc # "error"

\* C8 as stated: string_violates_rule("a|b") returns False.
C8_Original ==
    (Returned /\ text = <<"a", "|", "b">>) => ret = "False"

\* C8 as amended: string_violates_rule("a|b") returns True.
C8_Amended ==
    (Returned /\ text = <<"a", "|", "b">>) => ret = "True"

C8_Witness == text = <<"a", "|", "b">> /\ ret = "True"

\* C9: every text of length < 2 yields False, passed directly or reached
\* as the only leaf of a list or as the value of a dict entry.
C9_ShortText ==
    (Returned /\ Len(text) < 2) =>
        /\ ret = "False"
        /\ container_violates_rule(TextV(text)) = "False"
        /\ container_violates_rule(ListV(<<TextV(text)>>)) = "False"
        /\ container_violates_rule(DictV(<< <<"k">> >>, <<ListV(<<TextV(text)>>)>>)) = "False"

\* the one-character text "|" was checked and not flagged
C9_Witness == text = <<"|">> /\ ret = "False"


(***************************************************************************)
(* SpecWalk: container_violates_rule call by call.  Each frame of the      *)
(* stack is one active call: the value it was given, the path of that      *)
(* value inside the input (the positions taken from the root), and how     *)
(* many elements its generator has handed out so far.                      *)
(***************************************************************************)
MaxNodes == 5

\* leaf texts with each outcome of string_violates_rule: "a|b" (True),
\* "a | b" (False) and "a |" (IndexError)
LeafTexts ==
    { <<"a", "|", "b">>, <<"a", " ", "|", " ", "b">>, <<"a", " ", "|">> }

\* what a node without elements can be: a text, a value of another type
\* or an empty list
LeafChoices ==
    {TextV(t) : t \in LeafTexts} \cup {OtherV, ListV(<<>>)}

ContainerKinds == {"list", "dict"}

\* the keys of a dict of n entries, in iteration order: distinct texts, the
\* first of them holding a pipe without spaces
RECURSIVE KeySeq(_)
KeySeq(n) ==
    IF n = 0 THEN <<>>
    ELSE IF n = 1 THEN << <<"a", "|", "b">> >>
    ELSE Append(KeySeq(n - 1), [i \in 1..(n - 1) |-> "k"])

\* The shape of a value: the sequence of the shapes of its elements (<<>>
\* for a node without elements).
RECURSIVE ShapesOfSize(_), ShapeForests(_)

\* the sequences of shapes holding m nodes in all
ShapeForests(m) ==
    IF m = 0 THEN {<<>>}
    ELSE UNION { {<<s>> \o f : s \in ShapesOfSize(k), f \in ShapeForests(m - k)}
                 : k \in 1..m }

\* the shapes of exactly n nodes
ShapesOfSize(n) == ShapeForests(n - 1)

Shapes == UNION {ShapesOfSize(n) : n \in 1..MaxNodes}

RECURSIVE Size(_), SizeOfForest(_)
SizeOfForest(f) == IF f = <<>> THEN 0 ELSE Size(Head(f)) + SizeOfForest(Tail(f))

Size(s) == 1 + SizeOfForest(s)

\* the nodes of a shape are numbered 1, 2, ... in depth-first order: the
\* numbers of the nodes with elements, the root being number `at`
RECURSIVE InnerNodes(_, _), InnerNodesOfForest(_, _)
InnerNodesOfForest(f, at) ==
    IF f = <<>> THEN {}
    ELSE InnerNodes(Head(f), at) \cup InnerNodesOfForest(Tail(f), at + Size(Head(f)))

InnerNodes(s, at) ==
    IF s = <<>> THEN {} ELSE {at} \cup InnerNodesOfForest(s, at + 1)

\* the value of shape s whose containers have the kinds `kinds` and whose
\* nodes without elements are the values `leaves`
RECURSIVE Build(_, _, _, _), BuildForest(_, _, _, _)
BuildForest(f, kinds, leaves, at) ==
    IF f = <<>> THEN <<>>
    ELSE <<Build(Head(f), kinds, leaves, at)>>
         \o BuildForest(Tail(f), kinds, leaves, at + Size(Head(f)))

Build(s, kinds, leaves, at) ==
    IF s = <<>> THEN leaves[at]
    ELSE LET es == BuildForest(s, kinds, leaves, at + 1) IN
         IF kinds[at] = "list" THEN ListV(es) ELSE DictV(KeySeq(Len(es)), es)

Frame(v, path) == [node |-> v, path |-> path, i |-> 0]

Top == stack[Len(stack)]

Pop == SubSeq(stack, 1, Len(stack) - 1)

IsContainer(v) == v.kind \in {"list", "dict"}

InitWalk ==
    /\ \E s \in Shapes :
         \E kinds \in [InnerNodes(s, 1) -> ContainerKinds] :
             \E leaves \in [(1..Size(s)) \ InnerNodes(s, 1) -> LeafChoices] :
                 input = Build(s, kinds, leaves, 1)
    /\ stack = <<>>
    /\ retval = "none"
    /\ visited = <<>>
    /\ outcome = "none"
    /\ IdleString
    /\ IdleRun

\* the outermost call: container_violates_rule(input)
CallContainer ==
    /\ outcome = "none" /\ retval = "none" /\ stack = <<>>
    /\ stack' = <<Frame(input, <<>>)>>
    /\ visited' = <<(<<>>)>>
    /\ UNCHANGED <<text, ret, input, retval, outcome, tasks, pos, matches, pc>>

\* `if isinstance(container, str): return string_violates_rule(container)`
ReturnStr ==
    /\ stack # <<>> /\ retval = "none"
    /\ Top.node.kind = "str"
    /\ retval' = string_violates_rule(Top.node.text)
    /\ stack' = Pop
    /\ UNCHANGED <<text, ret, input, visited, outcome, tasks, pos, matches, pc>>

\* neither str, list nor dict: the final `return False`
ReturnOther ==
    /\ stack # <<>> /\ retval = "none"
    /\ Top.node.kind = "other"
    /\ retval' = "False"
    /\ stack' = Pop
    /\ UNCHANGED <<text, ret, input, visited, outcome, tasks, pos, matches, pc>>

\* any() asks the generator for its next item: the generator takes the
\* next element and calls container_violates_rule on it
NextElem ==
    /\ stack # <<>> /\ retval = "none"
    /\ IsContainer(Top.node)
    /\ Top.i < Len(Elements(Top.node))
    /\ LET k == Top.i + 1
           child == Frame(Elements(Top.node)[k], Append(Top.path, k))
       IN /\ stack' = Append([stack EXCEPT ![Len(stack)].i = k], child)
          /\ visited' = Append(visited, child.path)
    /\ UNCHANGED <<text, ret, input, retval, outcome, tasks, pos, matches, pc>>

\* the generator is exhausted: any() returns False
Exhausted ==
    /\ stack # <<>> /\ retval = "none"
    /\ IsContainer(Top.node)
    /\ Top.i = Len(Elements(Top.node))
    /\ retval' = "False"
    /\ stack' = Pop
    /\ UNCHANGED <<text, ret, input, visited, outcome, tasks, pos, matches, pc>>

\* the call on an element returned False: the `if` of the generator
\* drops the element and the generator goes on
ElemFalse ==
    /\ stack # <<>> /\ retval = "False"
    /\ retval' = "none"
    /\ UNCHANGED <<text, ret, input, stack, visited, outcome, tasks, pos, matches, pc>>

\* mutant: a True element is consumed but any() is only answered once the
\* elements are used up (the call keeps iterating)
ElemTrueKeepsIterating ==
    /\ stack # <<>> /\ retval = "True"
    /\ IF Top.i < Len(Elements(Top.node))
       THEN retval' = "none" /\ stack' = stack
       ELSE retval' = "True" /\ stack' = Pop
    /\ UNCHANGED <<text, ret, input, visited, outcome, tasks, pos, matches, pc>>

\* the call on an element returned True: the generator yields True, any()
\* returns True at once and the enclosing call returns it
ElemTrue ==
    /\ stack # <<>> /\ retval = "True"
    /\ stack' = Pop
    /\ UNCHANGED <<text, ret, input, retval, visited, outcome, tasks, pos, matches, pc>>

\* the call on an element raised: the exception leaves the generator,
\* any() and the enclosing call
ElemRaise ==
    /\ stack # <<>> /\ retval = "IndexError"
    /\ stack' = Pop
    /\ UNCHANGED <<text, ret, input, retval, visited, outcome, tasks, pos, matches, pc>>

\* the outermost call has ended
Finish ==
    /\ stack = <<>> /\ retval # "none"
    /\ outcome' = retval
    /\ retval' = "none"
    /\ UNCHANGED <<text, ret, input, stack, visited, tasks, pos, matches, pc>>

NextWalk ==
    \/ CallContainer
    \/ ReturnStr
    \/ ReturnOther
    \/ NextElem
    \/ Exhausted
    \/ ElemFalse
    \/ ElemTrue
    \/ ElemRaise
    \/ Finish

SpecWalk == InitWalk /\ [][NextWalk]_vars

\* the step-by-step walk ends with the value of the function
WalkAgrees == outcome # "none" => outcome = container_violates_rule(input)


(***************************************************************************)
(* Properties of container_violates_rule (checked under SpecWalk)          *)
(***************************************************************************)
\* the texts reachable through list elements and dict values
RECURSIVE ReachableTexts(_)
ReachableTexts(v) ==
    IF v.kind = "str" THEN {v.text}
    ELSE UNION {ReachableTexts(v.elems[i]) : i \in 1..Len(v.elems)}

\* the value found at a path of positions
RECURSIVE ValueAt(_, _)
ValueAt(v, path) ==
    IF path = <<>> THEN v ELSE ValueAt(v.elems[Head(path)], Tail(path))

\* the paths of a value and of everything inside it, depth first, the
\* elements of each container in their order
RECURSIVE Preorder(_, _), PreorderOfElems(_, _, _)
PreorderOfElems(v, path, k) ==
    IF k > Len(v.elems) THEN <<>>
    ELSE Preorder(v.elems[k], Append(path, k)) \o PreorderOfElems(v, path, k + 1)

Preorder(v, path) == <<path>> \o PreorderOfElems(v, path, 1)

IsPrefix(s, t) == Len(s) <= Len(t) /\ SubSeq(t, 1, Len(s)) = s

Perms(n) == {p \in [1..n -> 1..n] : \A i, j \in 1..n : p[i] = p[j] => i = j}

\* the container with its elements (a dict: its entries) in the order p
Reorder(v, p) ==
    [v EXCEPT !.elems = [i \in 1..Len(v.elems) |-> v.elems[p[i]]],
              !.keys = [i \in 1..Len(v.keys) |-> v.keys[p[i]]]]

Walked == outcome # "none"

\* C5: for a list or dict the call returns the logical OR of the verdicts
\* of string_violates_rule over the texts reachable through elements and
\* values; keys and values of other types contribute nothing.
C5_OrOfLeaves ==
    (Walked /\ IsContainer(input)) =>
        outcome = IF \E t \in ReachableTexts(input) : string_violates_rule(t) = "True"
                  THEN "True" ELSE "False"

\* C6: a list with its elements permuted, or a dict iterated in another
\* order, gives the same outcome as the original.
C6_Reordering ==
    (Walked /\ IsContainer(input)) =>
        \A p \in Perms(Len(input.elems)) :
            container_violates_rule(Reorder(input, p)) = outcome

\* the values examined so far are the first ones of the depth-first order
InOrder == IsPrefix(visited, Preorder(input, <<>>))

\* whatever was examined after a violating value lies inside that value
NothingLater ==
    \A j \in 1..Len(visited) :
        container_violates_rule(ValueAt(input, visited[j])) = "True"
            => \A k \in (j + 1)..Len(visited) : IsPrefix(visited[j], visited[k])

\* C10: the values are examined depth first in sequence order; nothing is
\* examined after a violating element except what lies inside it; and from
\* the moment a call has returned True nothing more is examined and True
\* travels up to the outermost call.
C10_OrderedShortCircuit ==
    /\ [](InOrder /\ NothingLater)
    /\ [][retval = "True" =>
            /\ visited' = visited
            /\ retval' = "True" \/ outcome' = "True"]_vars

\* [[violating, y], z]: the walk ended True having examined neither y, a
\* later element of the same list, nor z, a later element of the outer one
C10_Witness ==
    /\ outcome = "True"
    /\ Len(input.elems) = 2
    /\ Len(input.elems[1].elems) = 2
    /\ visited = << <<>>, <<1>>, <<1, 1>> >>

(***************************************************************************)
(* SpecRun: the host linter hands each task of a playbook to matchtask     *)
(* and reports the tasks for which it returns True.                        *)
(***************************************************************************)
MaxTasks == 2

TaskTexts ==
    { <<"a", "|", "b">>, <<"a", " ", "|", " ", "b">>, <<"|", " ", "a">>,
      <<"a", " ", "|">>, <<"|">> }

\* a task with the fields msg and loop
TaskRecords ==
    { DictV(<< <<"m", "s", "g">>, <<"l", "o", "o", "p">> >>, <<TextV(m), TextV(l)>>)
      : m \in TaskTexts, l \in TaskTexts }

InitRun ==
    /\ \E n \in 0..MaxTasks : tasks \in [1..n -> TaskRecords]
    /\ pos = 0
    /\ matches = {}
    /\ pc = "running"
    /\ IdleString
    /\ IdleWalk

\* matchtask returned True: the task is reported
Report ==
    /\ pc = "running" /\ pos < Len(tasks)
    /\ matchtask(tasks[pos + 1]) = "True"
    /\ matches' = matches \cup {pos + 1}
    /\ pos' = pos + 1
    /\ UNCHANGED <<text, ret, input, stack, retval, visited, outcome, tasks, pc>>

\* matchtask returned False: nothing is reported
Pass ==
    /\ pc = "running" /\ pos < Len(tasks)
    /\ matchtask(tasks[pos + 1]) = "False"
    /\ pos' = pos + 1
    /\ UNCHANGED <<text, ret, input, stack, retval, visited, outcome, tasks, matches, pc>>

\* matchtask raised: the exception ends the run
Crash ==
    /\ pc = "running" /\ pos < Len(tasks)
    /\ matchtask(tasks[pos + 1]) = "IndexError"
    /\ pc' = "error"
    /\ UNCHANGED <<text, ret, input, stack, retval, visited, outcome, tasks, pos, matches>>

\* every task has been handed to matchtask
EndRun ==
    /\ pc = "running" /\ pos = Len(tasks)
    /\ pc' = "done"
    /\ UNCHANGED <<text, ret, input, stack, retval, visited, outcome, tasks, pos, matches>>

NextRun ==
    \/ Report
    \/ Pass
    \/ Crash
    \/ EndRun

SpecRun == InitRun /\ [][NextRun]_vars

\* C7: matchtask returns the walker's verdict for every task, so the run
\* ends with exactly the tasks that hold a violating string reported.
C7_OneMatchPerViolatingTask ==
    pc # "running" =>
        /\ pc = "done"
        /\ matches = {i \in 1..Len(tasks) :
                        \E t \in ReachableTexts(tasks[i]) :
                            string_violates_rule(t) = "True"}

====
